---- MODULE Spec2Model ----
(***************************************************************************)
(* A model of timesheeter.py: configuration loading and validation, the    *)
(* initialization against the remote spreadsheet, the display of the last  *)
(* rows and the interactive entry loop.                                    *)
(*                                                                         *)
(* Python strings are sequences of one-character strings, so that the      *)
(* date pattern, int() and str.lower() are computed on the characters.     *)
(* The empty string is <<>>.  A row is a 4-tuple of strings; None, where   *)
(* the code uses it for a row, is the empty tuple NoRow.                   *)
(*                                                                         *)
(* The code compares strings with 'is' (lines 208, 211, 245-249, 313).     *)
(* CPython keeps one object for the empty string and one for each          *)
(* one-character Latin-1 string, so these tests are equalities here.       *)
(***************************************************************************)
EXTENDS Integers, Sequences, FiniteSets, TLC

(***************************************************************************)
(* Bounds of the model.                                                    *)
(***************************************************************************)
\* Number of rows of the worksheet grid.
MaxRow == 5
\* Largest number of rows the sheet holds when the program starts.
MaxInitRows == 2

(***************************************************************************)
(* Strings.                                                                *)
(***************************************************************************)
Empty == <<>>

Digits == {"0", "1", "2", "3", "4", "5", "6", "7", "8", "9"}

\* str.replace(old, new) for one-character old and new.
Replace(s, old, new) == [i \in DOMAIN s |-> IF s[i] = old THEN new ELSE s[i]]

\* str.lower() on the letters the inputs use.
LowerChar(c) ==
    CASE c = "N" -> "n"
      [] c = "Q" -> "q"
      [] c = "L" -> "l"
      [] c = "O" -> "o"
      [] OTHER -> c

lower_leaves_capitals(s) == s

lower(s) == [i \in DOMAIN s |-> LowerChar(s[i])]

(***************************************************************************)
(* is_int: int(value) succeeds.  int() takes an optional sign followed by  *)
(* at least one digit (configparser has already stripped the whitespace).  *)
(***************************************************************************)
AllDigits(s) == Len(s) > 0 /\ \A i \in DOMAIN s : s[i] \in Digits

is_int(value) ==
    IF Len(value) > 0 /\ value[1] \in {"+", "-"}
    THEN AllDigits(Tail(value))
    ELSE AllDigits(value)

DigitValue(c) ==
    CASE c = "0" -> 0 [] c = "1" -> 1 [] c = "2" -> 2 [] c = "3" -> 3
      [] c = "4" -> 4 [] c = "5" -> 5 [] c = "6" -> 6 [] c = "7" -> 7
      [] c = "8" -> 8 [] c = "9" -> 9

RECURSIVE NatValue(_)
NatValue(s) ==
    IF s = Empty THEN 0
    ELSE 10 * NatValue(SubSeq(s, 1, Len(s) - 1)) + DigitValue(s[Len(s)])

\* int(value), for a value is_int accepts.
int(value) ==
    IF value[1] = "-" THEN 0 - NatValue(Tail(value))
    ELSE IF value[1] = "+" THEN NatValue(Tail(value))
    ELSE NatValue(value)

(***************************************************************************)
(* The configuration: the sections of the file and, for each option the    *)
(* program reads, its value or Absent.                                     *)
(***************************************************************************)
Absent == <<"<absent>">>

CredFile == <<"c">>
ExistingFiles == {CredFile}

\* os.path.isfile
isfile(path) == path \in ExistingFiles

SectionNames == {"AUTH", "SHEET", "INTERFACE"}

CredentialPathValues == {Empty, CredFile, <<"m">>}
NameValues == {Empty, <<"S">>}
TabTitleValues == {Empty, <<"T">>}
DisplayRowsValues ==
    {Empty, <<"x">>, <<"0">>, <<"-", "1">>, <<"1">>, <<"2">>, <<"1", "0">>}

OptionsOf(present, values) == IF present THEN values \cup {Absent} ELSE {Absent}

\* The config object after ConfigParser() and no read.
EmptyConfig ==
    [sections |-> {}, CredentialPath |-> Absent, Name |-> Absent,
     TabTitle |-> Absent, DisplayRows |-> Absent]

ConfigFiles ==
    UNION { [sections : {S},
             CredentialPath : OptionsOf("AUTH" \in S, CredentialPathValues),
             Name : OptionsOf("SHEET" \in S, NameValues),
             TabTitle : OptionsOf("SHEET" \in S, TabTitleValues),
             DisplayRows : OptionsOf("INTERFACE" \in S, DisplayRowsValues)]
            : S \in SUBSET SectionNames }

has_section(cfg, section) == section \in cfg.sections

has_option(cfg, section, option) ==
    /\ section \in cfg.sections
    /\ CASE option = "CredentialPath" -> cfg.CredentialPath # Absent
         [] option = "Name" -> cfg.Name # Absent
         [] option = "TabTitle" -> cfg.TabTitle # Absent
         [] option = "DisplayRows" -> cfg.DisplayRows # Absent

None == "None"

validate_config_name_before_credential(cfg) ==
    IF ~has_section(cfg, "AUTH") THEN <<FALSE, "AUTH section is invalid.">>
    ELSE IF ~has_section(cfg, "SHEET") THEN <<FALSE, "SHEET section is invalid.">>
    ELSE IF ~has_section(cfg, "INTERFACE")
        THEN <<FALSE, "INTERFACE section is invalid.">>
    ELSE IF ~has_option(cfg, "SHEET", "Name")
        THEN <<FALSE, "Name option is invalid in the SHEET section.">>
    ELSE IF ~has_option(cfg, "AUTH", "CredentialPath")
        THEN <<FALSE, "CredentialPath option is invalid in the AUTH section.">>
    ELSE IF ~has_option(cfg, "SHEET", "TabTitle")
        THEN <<FALSE, "TabTitle option is invalid in the SHEET section.">>
    ELSE IF ~has_option(cfg, "INTERFACE", "DisplayRows")
        THEN <<FALSE, "DisplayRows option is invalid in the INTERFACE section.">>
    ELSE IF ~isfile(cfg.CredentialPath)
        THEN <<FALSE, "Credential's path is invalid.">>
    ELSE IF cfg.Name = Empty THEN <<FALSE, "Spreadsheet name is invalid.">>
    ELSE IF cfg.TabTitle = Empty
        THEN <<FALSE, "Spreadsheet tab title is invalid.">>
    ELSE IF cfg.DisplayRows = Empty \/ ~is_int(cfg.DisplayRows)
        THEN <<FALSE, "Interface DisplayRows is invalid.">>
    ELSE <<TRUE, None>>

validate_config(cfg) ==
    IF ~has_section(cfg, "AUTH") THEN <<FALSE, "AUTH section is invalid.">>
    ELSE IF ~has_section(cfg, "SHEET") THEN <<FALSE, "SHEET section is invalid.">>
    ELSE IF ~has_section(cfg, "INTERFACE")
        THEN <<FALSE, "INTERFACE section is invalid.">>
    ELSE IF ~has_option(cfg, "AUTH", "CredentialPath")
        THEN <<FALSE, "CredentialPath option is invalid in the AUTH section.">>
    ELSE IF ~has_option(cfg, "SHEET", "Name")
        THEN <<FALSE, "Name option is invalid in the SHEET section.">>
    ELSE IF ~has_option(cfg, "SHEET", "TabTitle")
        THEN <<FALSE, "TabTitle option is invalid in the SHEET section.">>
    ELSE IF ~has_option(cfg, "INTERFACE", "DisplayRows")
        THEN <<FALSE, "DisplayRows option is invalid in the INTERFACE section.">>
    ELSE IF ~isfile(cfg.CredentialPath)
        THEN <<FALSE, "Credential's path is invalid.">>
    ELSE IF cfg.Name = Empty THEN <<FALSE, "Spreadsheet name is invalid.">>
    ELSE IF cfg.TabTitle = Empty
        THEN <<FALSE, "Spreadsheet tab title is invalid.">>
    ELSE IF cfg.DisplayRows = Empty \/ ~is_int(cfg.DisplayRows)
        THEN <<FALSE, "Interface DisplayRows is invalid.">>
    ELSE <<TRUE, None>>

\* load_config: the bare False of line 49 is <<FALSE>>, which init cannot
\* unpack into (is_loaded, error_message); otherwise validate_config's pair.
load_config(fileExists, fileContents) ==
    IF ~fileExists THEN <<FALSE>> ELSE validate_config(fileContents)

(***************************************************************************)
(* The worksheet: a grid of MaxRow rows of four cells.  An empty cell is   *)
(* the empty string; the remote service reports a row outside the data as  *)
(* a row of empty cells.                                                   *)
(***************************************************************************)
BlankRow == <<Empty, Empty, Empty, Empty>>
NoRow == <<>>
NoWorksheet == <<>>

Date1 == <<"2", "0", "2", "4", ".", "0", "1", ".", "0", "5", ".">>
Date2 == <<"2", "0", "2", "4", ".", "0", "1", ".", "0", "6", ".">>

\* Rows a sheet may hold when the program starts: full rows of two days, a
\* row without a date, and a row with a date only.
InitialRows ==
    {<<Date1, <<"8">>, <<"Q">>, <<"d">>>>,
     <<Date2, <<"8">>, <<"Q">>, <<"d">>>>,
     <<Empty, <<"8">>, <<"Q">>, <<"d">>>>,
     <<Date1, Empty, Empty, Empty>>}

\* A sheet of n data rows: blank rows may lie between them, the last is not
\* blank.
SheetsOfLength(n) ==
    IF n = 0 THEN {[i \in 1..MaxRow |-> BlankRow]}
    ELSE {[i \in 1..MaxRow |-> IF i <= n THEN data[i] ELSE BlankRow] :
            data \in {d \in [1..n -> InitialRows \cup {BlankRow}] : d[n] # BlankRow}}

InitialSheets == UNION {SheetsOfLength(n) : n \in 0..MaxInitRows}

\* worksheet.get_all_values(): the rows up to the last one that holds a value.
get_all_values(ws) ==
    LET used == {i \in DOMAIN ws : ws[i] # BlankRow}
        n == IF used = {} THEN 0 ELSE CHOOSE i \in used : \A j \in used : j <= i
    IN  SubSeq(ws, 1, n)

\* worksheet.row_values(row_index): the four cells of the row, empty cells
\* as '' (line 313 tests row[0] against ''), also for a row below the data.
row_values(ws, row_index) ==
    IF row_index \in DOMAIN ws THEN ws[row_index] ELSE BlankRow

\* worksheet.update_cell(row, col, value)
update_cell(ws, r, c, value) == [ws EXCEPT ![r][c] = value]

\* write_row: one update_cell per column, column 0 .. len(row_data) - 1.
RECURSIVE write_columns(_, _, _, _)
write_columns(ws, row_number, row_data, column) ==
    IF column >= Len(row_data) THEN ws
    ELSE write_columns(update_cell(ws, row_number, column + 1, row_data[column + 1]),
                       row_number, row_data, column + 1)

write_row(ws, row_number, row_data) == write_columns(ws, row_number, row_data, 0)

(***************************************************************************)
(* Validation of what the user typed.                                      *)
(***************************************************************************)
\* re.match(r'^\d{4}.\d{2}.\d{2}.$', date_string): '.' is any character but a
\* newline, and '$' also matches before one final newline.
MatchesDatePattern(s) ==
    /\ Len(s) = 11
    /\ \A i \in {1, 2, 3, 4, 6, 7, 9, 10} : s[i] \in Digits
    /\ \A i \in {5, 8, 11} : s[i] # "\n"

validate_date(date_string) ==
    \/ MatchesDatePattern(date_string)
    \/ /\ Len(date_string) = 12
       /\ date_string[12] = "\n"
       /\ MatchesDatePattern(SubSeq(date_string, 1, 11))

validate_row_ignoring_description(r) ==
    IF ~validate_date(r[1]) THEN FALSE
    ELSE IF r[2] = Empty \/ r[3] = Empty THEN FALSE
    ELSE TRUE

validate_row(r) ==
    IF ~validate_date(r[1]) THEN FALSE
    ELSE IF r[2] = Empty \/ r[3] = Empty \/ r[4] = Empty THEN FALSE
    ELSE TRUE

(***************************************************************************)
(* print_last_rows: the rows it asks the worksheet for, the lines it       *)
(* prints and the row it returns.                                          *)
(***************************************************************************)
Tab == <<"\t">>

FormatRow(r) == r[1] \o Tab \o r[2] \o Tab \o r[3] \o Tab \o r[4]

RECURSIVE print_rows(_, _, _, _)
print_rows(ws, row_index, stop, acc) ==
    IF row_index >= stop THEN acc
    ELSE LET r == row_values(ws, row_index)
         IN  print_rows(ws, row_index + 1, stop,
                 [reads |-> Append(acc.reads, row_index),
                  lines |-> Append(acc.lines,
                                   IF r[1] = Empty THEN <<"-">> ELSE FormatRow(r)),
                  last_row |-> IF r[1] = Empty THEN acc.last_row ELSE r])

print_last_rows(ws, last_index, cfg) ==
    LET count == int(cfg.DisplayRows)
        row_index_from == IF last_index - count > 0 THEN last_index - count ELSE 0
        row_index_to == IF last_index > row_index_from THEN last_index
                        ELSE row_index_from + 1
    IN  print_rows(ws, row_index_from + 1, row_index_to + 1,
                   [reads |-> <<>>, lines |-> <<>>, last_row |-> NoRow])

(***************************************************************************)
(* The program state.                                                      *)
(***************************************************************************)
VARIABLES
    configFileExists,  \* os.path.isfile(CONFIG_FILE_NAME)
    configFile,        \* what the config file holds
    config,            \* the global config
    validation,        \* what load_config returned to init
    client,            \* init's local client: "unbound" or "client"
    worksheet,         \* the remote worksheet behind the global handle
    last_row_index,    \* the global last_row_index
    last_row,          \* get_rows_from_user's last_row
    project_name,      \* get_rows_from_user's project_name
    work_hour,         \* get_rows_from_user's work_hour
    row,               \* the row assembled from the prompts
    choose,            \* show_options' choose
    display,           \* the latest print_last_rows call: index, reads, lines, result
    written,           \* the row numbers write_row was called with, in order
    stdout,            \* the error messages init printed
    failure,           \* the first initialization step that failed
    uncaught,          \* the exception that ended the process, if one did
    exitCode,          \* the exit status: "running", "0" or "1"
    pc                 \* the position in main

vars ==
    <<configFileExists, configFile, config, validation, client, worksheet,
      last_row_index, last_row, project_name, work_hour, row, choose, display,
      written, stdout, failure, uncaught, exitCode, pc>>

NoDisplay == [at |-> 0, reads |-> <<>>, lines |-> <<>>, last_row |-> NoRow]

Init ==
    /\ configFileExists \in BOOLEAN
    /\ configFile \in (IF configFileExists THEN ConfigFiles ELSE {EmptyConfig})
    /\ config = EmptyConfig
    /\ validation = <<>>
    /\ client = "unbound"
    /\ worksheet = NoWorksheet
    /\ last_row_index = 0
    /\ last_row = NoRow
    /\ project_name = Empty
    /\ work_hour = Empty
    /\ row = NoRow
    /\ choose = Empty
    /\ display = NoDisplay
    /\ written = <<>>
    /\ stdout = <<>>
    /\ failure = "none"
    /\ uncaught = "none"
    /\ exitCode = "running"
    /\ pc = "load_config"

\* sys.exit(1) after printing message.
ExitWithError(message) ==
    /\ stdout' = Append(stdout, message)
    /\ exitCode' = "1"
    /\ uncaught' = "none"
    /\ pc' = "exited"

\* An exception nothing catches: the interpreter prints the traceback and the
\* exit status is 1.
Raise(exception) ==
    /\ stdout' = stdout
    /\ exitCode' = "1"
    /\ uncaught' = exception
    /\ pc' = "exited"

Continue(next) ==
    /\ pc' = next
    /\ UNCHANGED <<stdout, exitCode, uncaught>>

(***************************************************************************)
(* init                                                                    *)
(***************************************************************************)
\* Lines 117-123 with load_config.
LoadConfig ==
    /\ pc = "load_config"
    /\ config' = (IF configFileExists THEN configFile ELSE EmptyConfig)
    /\ LET result == load_config(configFileExists, configFile)
       IN  /\ validation' = result
           /\ IF Len(result) # 2
              THEN failure' = "config_missing" /\ Raise("TypeError")
              ELSE IF ~result[1]
              THEN /\ failure' = "config_invalid"
                   /\ ExitWithError(<<"ERROR:", result[2]>>)
              ELSE failure' = failure /\ Continue("authorize")
    /\ UNCHANGED <<configFileExists, configFile, client, worksheet, last_row_index,
                   last_row, project_name, work_hour, row, choose, display,
                   written>>

\* Lines 132-137: the credentials are read outside the try; a failure of
\* gspread.authorize is printed and init goes on.
Authorize ==
    /\ pc = "authorize"
    /\ \E outcome \in {"ok", "bad_keyfile", "refused"} :
          CASE outcome = "ok" ->
                 client' = "client" /\ failure' = failure /\ Continue("open")
            [] outcome = "bad_keyfile" ->
                 client' = client /\ failure' = "auth" /\ Raise("ValueError")
            [] outcome = "refused" ->
                 /\ client' = client
                 /\ failure' = "auth"
                 /\ stdout' = Append(stdout, <<"Error during the authorization:">>)
                 /\ pc' = "open"
                 /\ UNCHANGED <<exitCode, uncaught>>
    /\ UNCHANGED <<configFileExists, configFile, config, validation, worksheet,
                   last_row_index, last_row, project_name, work_hour, row, choose,
                   display, written>>

\* Lines 140-144.
OpenSpreadsheet ==
    /\ pc = "open"
    /\ IF client = "unbound"
       THEN failure' = failure /\ Raise("UnboundLocalError")
       ELSE \E found \in BOOLEAN :
              IF found
              THEN failure' = failure /\ Continue("worksheet")
              ELSE /\ failure' = "spreadsheet"
                   /\ ExitWithError(<<"Error! The spreadsheet is not found:">>)
    /\ UNCHANGED <<configFileExists, configFile, config, validation, client,
                   worksheet, last_row_index, last_row, project_name, work_hour,
                   row, choose, display, written>>

\* Lines 147-151.
GetWorksheet ==
    /\ pc = "worksheet"
    /\ \/ /\ worksheet' \in InitialSheets
          /\ failure' = failure
          /\ Continue("get_last_row_index")
       \/ /\ worksheet' = worksheet
          /\ failure' = "worksheet"
          /\ ExitWithError(<<"Error! The worksheet is not found:">>)
    /\ UNCHANGED <<configFileExists, configFile, config, validation, client,
                   last_row_index, last_row, project_name, work_hour, row, choose,
                   display, written>>

(***************************************************************************)
(* main after init                                                         *)
(***************************************************************************)
\* get_last_row_index
GetLastRowIndex ==
    /\ pc = "get_last_row_index"
    /\ last_row_index' = Len(get_all_values(worksheet))
    /\ Continue("display")
    /\ UNCHANGED <<configFileExists, configFile, config, validation, client,
                   worksheet, last_row, project_name, work_hour, row, choose,
                   display, written, failure>>

\* The record kept of a print_last_rows call.
Displayed(result) ==
    [at |-> last_row_index, reads |-> result.reads, lines |-> result.lines,
     last_row |-> result.last_row]

\* Line 342: last_row = print_last_rows()
InitialDisplay ==
    /\ pc = "display"
    /\ LET result == print_last_rows(worksheet, last_row_index, config)
       IN  /\ display' = Displayed(result)
           /\ last_row' = result.last_row
    /\ Continue("get_rows_from_user")
    /\ UNCHANGED <<configFileExists, configFile, config, validation, client,
                   worksheet, last_row_index, project_name, work_hour, row, choose,
                   written, failure>>

(***************************************************************************)
(* get_rows_from_user                                                      *)
(***************************************************************************)
\* What the user may type at the prompts, and the days date.today() may give.
Todays ==
    {<<"2", "0", "2", "4", "-", "0", "1", "-", "0", "5">>,
     <<"2", "0", "2", "4", "-", "0", "1", "-", "0", "6">>}
DateInputs == {Empty, Date2, <<"2", "0", "2", "4", "-", "0", "1", "-", "0", "5">>}
ProjectInputs == {Empty, <<"P">>}
HourInputs == {Empty, <<"4">>}
DescriptionInputs == {Empty, <<"d">>}
ChooseInputs ==
    {Empty, <<"n">>, <<"N", "o">>, <<"q">>, <<"Q">>, <<"l">>, <<"L">>, <<"x">>}

\* Lines 201-203: date.today().isoformat() as YYYY.MM.DD.
FormatToday(today) == Replace(today, "-", ".") \o <<".">>

\* Lines 188-193: the defaults are read from last_row, which the display may
\* have returned as None.
StartEntry ==
    /\ pc = "get_rows_from_user"
    /\ IF last_row = NoRow
       THEN /\ Raise("TypeError")
            /\ UNCHANGED <<project_name, work_hour>>
       ELSE /\ project_name' = last_row[3]
            /\ work_hour' = last_row[2]
            /\ Continue("PROMPT")
    /\ UNCHANGED <<configFileExists, configFile, config, validation, client,
                   worksheet, last_row_index, last_row, row, choose, display,
                   written, failure>>

\* Lines 198-215: the four prompts and the row assembled from them.  The grid
\* has room for the entry.
PromptRow ==
    /\ pc = "PROMPT"
    /\ last_row_index + 2 <= MaxRow
    /\ \E today \in Todays, entry_date_raw \in DateInputs,
          project_name_raw \in ProjectInputs, work_hour_raw \in HourInputs,
          description \in DescriptionInputs :
          LET entry_date == IF validate_date(entry_date_raw) THEN entry_date_raw
                            ELSE FormatToday(today)
          IN  /\ project_name' = (IF project_name_raw # Empty THEN project_name_raw
                                  ELSE project_name)
              /\ work_hour' = (IF work_hour_raw # Empty THEN work_hour_raw
                               ELSE work_hour)
              /\ row' = <<entry_date, work_hour', project_name', description>>
    /\ Continue("VALIDATE")
    /\ UNCHANGED <<configFileExists, configFile, config, validation, client,
                   worksheet, last_row_index, last_row, choose, display, written,
                   failure>>

\* Lines 218-220.
RejectRow ==
    /\ pc = "VALIDATE"
    /\ ~validate_row(row)
    /\ Continue("PROMPT")
    /\ UNCHANGED <<configFileExists, configFile, config, validation, client,
                   worksheet, last_row_index, last_row, project_name, work_hour,
                   row, choose, display, written, failure>>

StoreRow_index_not_advanced(row_number, new_index) ==
    /\ worksheet' = write_row(worksheet, row_number, row)
    /\ written' = Append(written, row_number)
    /\ last_row_index' = new_index - 1
    /\ last_row' = row

\* write_row(row_number, row) followed by lines 228-229, with new_index the
\* value last_row_index has after them.
StoreRow(row_number, new_index) ==
    /\ worksheet' = write_row(worksheet, row_number, row)
    /\ written' = Append(written, row_number)
    /\ last_row_index' = new_index
    /\ last_row' = row

WriteRow_same_date_overwrites ==
    /\ pc = "VALIDATE"
    /\ validate_row(row)
    /\ IF row[1] = last_row[1]
       THEN StoreRow(last_row_index, last_row_index)
       ELSE StoreRow(last_row_index + 2, last_row_index + 2)
    /\ Continue("SHOW_OPTIONS")
    /\ UNCHANGED <<configFileExists, configFile, config, validation, client,
                   project_name, work_hour, row, choose, display, failure>>

WriteRow_new_date_next_row ==
    /\ pc = "VALIDATE"
    /\ validate_row(row)
    /\ IF row[1] = last_row[1]
       THEN StoreRow(last_row_index + 1, last_row_index + 1)
       ELSE StoreRow(last_row_index + 1, last_row_index + 1)
    /\ Continue("SHOW_OPTIONS")
    /\ UNCHANGED <<configFileExists, configFile, config, validation, client,
                   project_name, work_hour, row, choose, display, failure>>

\* Lines 222-230.
WriteRow ==
    /\ pc = "VALIDATE"
    /\ validate_row(row)
    /\ IF row[1] = last_row[1]
       THEN StoreRow(last_row_index + 1, last_row_index + 1)
       ELSE StoreRow(last_row_index + 2, last_row_index + 2)
    /\ Continue("SHOW_OPTIONS")
    /\ UNCHANGED <<configFileExists, configFile, config, validation, client,
                   project_name, work_hour, row, choose, display, failure>>

\* show_options, one turn of its loop; False returned ends get_rows_from_user
\* and main, and the process exits with status 0.
ShowOptions ==
    /\ pc = "SHOW_OPTIONS"
    /\ \E input \in ChooseInputs :
          /\ choose' = input
          /\ IF input = Empty \/ lower(input)[1] = "n"
             THEN /\ Continue("PROMPT")
                  /\ display' = display
             ELSE IF lower(input)[1] = "q"
             THEN /\ pc' = "exited"
                  /\ exitCode' = "0"
                  /\ UNCHANGED <<stdout, uncaught, display>>
             ELSE IF lower(input)[1] = "l"
             THEN /\ display' =
                       Displayed(print_last_rows(worksheet, last_row_index, config))
                  /\ Continue("SHOW_OPTIONS")
             ELSE /\ Continue("SHOW_OPTIONS")
                  /\ display' = display
    /\ UNCHANGED <<configFileExists, configFile, config, validation, client,
                   worksheet, last_row_index, last_row, project_name, work_hour,
                   row, written, failure>>

Next ==
    \/ LoadConfig
    \/ Authorize
    \/ OpenSpreadsheet
    \/ GetWorksheet
    \/ GetLastRowIndex
    \/ InitialDisplay
    \/ StartEntry
    \/ PromptRow
    \/ RejectRow
    \/ WriteRow
    \/ ShowOptions

Spec == Init /\ [][Next]_vars

(***************************************************************************)
(* Properties.                                                             *)
(***************************************************************************)
InEntryLoop == pc \in {"PROMPT", "VALIDATE", "SHOW_OPTIONS"}

\* A step of the entry loop that writes the assembled row.
WriteStep == pc = "VALIDATE" /\ pc' = "SHOW_OPTIONS"

\* The sheet after the step differs from the sheet before in row k alone,
\* which holds r.
OnlyRowSet(k, r) ==
    /\ k \in DOMAIN worksheet
    /\ worksheet' = [worksheet EXCEPT ![k] = r]
    /\ written' = Append(written, k)

LastWritten == written[Len(written)]

C2_NewDateNextRow ==
    [][(WriteStep /\ row[1] # last_row[1]) =>
         OnlyRowSet(last_row_index + 1, row)]_vars

\* C2 amended: a valid entry with another date than the previous row's is
\* written at row L + 2, row L + 1 and every other row are left as they
\* were, and last_row_index becomes L + 2.
C2_NewDateSkipsRow ==
    [][(WriteStep /\ row[1] # last_row[1]) =>
         (OnlyRowSet(last_row_index + 2, row)
            /\ last_row_index' = last_row_index + 2)]_vars

\* A new-date entry has been written: the row above it is blank.
C2_Witness ==
    /\ pc = "SHOW_OPTIONS"
    /\ written # <<>>
    /\ LastWritten = last_row_index
    /\ last_row_index > 1
    /\ worksheet[last_row_index - 1] = BlankRow
    /\ worksheet[last_row_index] = row

\* The rows max(L - N, 0) + 1 .. L, in ascending order.
LastRowsFrom(L, N) == IF L - N > 0 THEN L - N ELSE 0
LastRows(L, N) == [i \in 1..(L - LastRowsFrom(L, N)) |-> LastRowsFrom(L, N) + i]

\* The dated rows of the sheet among the indexes in the sequence rows.
DatedAmong(rows) == {i \in 1..Len(rows) : worksheet[rows[i]][1] # Empty}

\* The display, as recorded in d, read and printed exactly the rows of the
\* sequence rows and returned the last dated one of them.
ShowsRows(d, rows) ==
    /\ d.reads = rows
    /\ Len(d.lines) = Len(rows)
    /\ \A i \in 1..Len(rows) :
          d.lines[i] = (IF worksheet[rows[i]][1] = Empty THEN <<"-">>
                        ELSE FormatRow(worksheet[rows[i]]))
    /\ d.last_row = (IF DatedAmong(rows) = {} THEN NoRow
                     ELSE worksheet[rows[CHOOSE i \in DatedAmong(rows) :
                                           \A j \in DatedAmong(rows) : j <= i]])

AfterDisplay == pc \in {"get_rows_from_user", "PROMPT", "VALIDATE", "SHOW_OPTIONS"}

\* C3: with DisplayRows a positive N and last_row_index L, print_last_rows
\* reads and prints exactly the rows max(L - N, 0) + 1 .. L in ascending
\* order, '-' for a row without a date, and returns the last dated row of
\* them; for L = 0 that is no read, no line and None.
C3_DisplayShowsLastRows ==
    (AfterDisplay /\ display.at = last_row_index /\ int(config.DisplayRows) >= 1) =>
        ShowsRows(display, LastRows(last_row_index, int(config.DisplayRows)))

\* C4: once an initialization step has failed the process has exited with
\* status 1 through sys.exit, having printed an error message.
C4_InitFailureExits ==
    failure # "none" =>
        (pc = "exited" /\ exitCode = "1" /\ uncaught = "none" /\ stdout # <<>>)

\* The checks of the configuration in their order, each with whether it
\* fails and its message.
IntegerLiterals == {<<"0">>, <<"-", "1">>, <<"1">>, <<"2">>, <<"1", "0">>}

ConfigChecks(cfg) ==
    << <<"AUTH" \notin cfg.sections, "AUTH section is invalid.">>,
       <<"SHEET" \notin cfg.sections, "SHEET section is invalid.">>,
       <<"INTERFACE" \notin cfg.sections, "INTERFACE section is invalid.">>,
       <<cfg.CredentialPath = Absent,
         "CredentialPath option is invalid in the AUTH section.">>,
       <<cfg.Name = Absent, "Name option is invalid in the SHEET section.">>,
       <<cfg.TabTitle = Absent, "TabTitle option is invalid in the SHEET section.">>,
       <<cfg.DisplayRows = Absent,
         "DisplayRows option is invalid in the INTERFACE section.">>,
       <<cfg.CredentialPath \notin ExistingFiles, "Credential's path is invalid.">>,
       <<cfg.Name = Empty, "Spreadsheet name is invalid.">>,
       <<cfg.TabTitle = Empty, "Spreadsheet tab title is invalid.">>,
       <<cfg.DisplayRows \notin IntegerLiterals, "Interface DisplayRows is invalid.">> >>

FailingChecks(cfg) == {i \in DOMAIN ConfigChecks(cfg) : ConfigChecks(cfg)[i][1]}

\* C5: the validation of the config file read is (True, None) exactly when
\* no check fails, and otherwise (False, message) with the message of the
\* first failing check in the fixed order.
C5_FirstFailingCheck ==
    (pc # "load_config" /\ configFileExists) =>
        validation =
            (IF FailingChecks(config) = {} THEN <<TRUE, None>>
             ELSE <<FALSE,
                    ConfigChecks(config)[CHOOSE i \in FailingChecks(config) :
                        \A j \in FailingChecks(config) : i <= j][2]>>)

\* A config without the SHEET and INTERFACE sections was reported for SHEET.
C5_Witness ==
    /\ pc = "exited"
    /\ configFileExists
    /\ config.sections = {"AUTH"}
    /\ config.CredentialPath = Absent
    /\ validation = <<FALSE, "SHEET section is invalid.">>

\* C6: a config that passed validation has a DisplayRows of at least 1.
C6_DisplayRowsPositive ==
    (Len(validation) = 2 /\ validation[1]) => int(config.DisplayRows) >= 1

\* A row that validation must reject.
InvalidRow(r) ==
    \/ ~validate_date(r[1])
    \/ \E i \in 2..4 : r[i] = Empty

\* C7: an invalid row is not written: the step from VALIDATE goes back to
\* PROMPT and leaves the sheet, last_row_index, last_row and the two
\* defaults, which hold what the rejected attempt had for them; and every
\* row written is valid.
C7_RejectKeepsState ==
    [][/\ (pc = "VALIDATE" /\ InvalidRow(row)) =>
            /\ pc' = "PROMPT"
            /\ UNCHANGED <<worksheet, written, last_row_index, last_row,
                           project_name, work_hour>>
            /\ project_name' = row[3]
            /\ work_hour' = row[2]
       /\ \A i \in 1..Len(written') : ~InvalidRow(worksheet'[written'[i]])]_vars

\* A row was rejected for its description and the project typed with it is
\* the default now.
C7_Witness ==
    /\ pc = "PROMPT"
    /\ row # NoRow
    /\ row[4] = Empty
    /\ project_name = row[3]
    /\ project_name # last_row[3]
    /\ written # <<>>

FirstChar(s) == IF s = Empty THEN "" ELSE s[1]

\* C8: SHOW_OPTIONS is entered from elsewhere only by a write; there, empty
\* input or n/N goes to PROMPT, q/Q exits with status 0, l/L prints the last
\* DisplayRows rows and stays, anything else stays; no choice changes the
\* sheet, last_row_index or last_row; nothing follows the exit.
C8_ShowOptions ==
    [][/\ (pc # "SHOW_OPTIONS" /\ pc' = "SHOW_OPTIONS") =>
            (pc = "VALIDATE" /\ written' # written)
       /\ pc # "exited"
       /\ pc = "SHOW_OPTIONS" =>
            /\ UNCHANGED <<worksheet, written, last_row_index, last_row>>
            /\ CASE choose' = Empty \/ FirstChar(choose') \in {"n", "N"} ->
                      pc' = "PROMPT" /\ exitCode' = "running"
                 [] FirstChar(choose') \in {"q", "Q"} ->
                      pc' = "exited" /\ exitCode' = "0" /\ uncaught' = "none"
                 [] FirstChar(choose') \in {"l", "L"} ->
                      /\ pc' = "SHOW_OPTIONS"
                      /\ display'.at = last_row_index
                      /\ ShowsRows(display',
                                   LastRows(last_row_index, int(config.DisplayRows)))
                 [] OTHER ->
                      pc' = "SHOW_OPTIONS" /\ display' = display]_vars

\* The rows were listed after the last write and the user then quit with Q.
C8_Witness ==
    /\ pc = "exited"
    /\ exitCode = "0"
    /\ choose = <<"Q">>
    /\ written # <<>>
    /\ display.at = last_row_index
    /\ Len(display.reads) = 2

\* C9: when the initial display returned no last row the process does not
\* end on an exception before the first prompt.
C9_NoLastRowReachesPrompt ==
    (failure = "none" /\ last_row = NoRow /\ written = <<>> /\ pc = "exited") =>
        uncaught = "none"

\* C10: in the entry loop last_row_index, the sheet and the log of writes
\* change only by the write of a valid row; the write advances
\* last_row_index by 1 for the date of the previous row and by 2 for
\* another date, targets the row of the new last_row_index, above the old
\* one, and leaves every row that held data as it was.
C10_IndexBookkeeping ==
    [][InEntryLoop =>
        /\ (last_row_index' # last_row_index \/ worksheet' # worksheet
               \/ written' # written) => (WriteStep /\ ~InvalidRow(row))
        /\ WriteStep =>
             /\ last_row_index' =
                    last_row_index + (IF row[1] = last_row[1] THEN 1 ELSE 2)
             /\ written' = Append(written, last_row_index')
             /\ worksheet'[last_row_index'] = row
             /\ \A i \in DOMAIN worksheet :
                    worksheet[i] # BlankRow => worksheet'[i] = worksheet[i]]_vars

\* A same-date entry under the sheet's last row, then a new-date entry two
\* rows further.
C10_Witness ==
    /\ Len(written) = 2
    /\ written[1] > 1
    /\ worksheet[written[1] - 1] # BlankRow
    /\ written[2] = written[1] + 2
    /\ last_row_index = written[2]

====
